---------------------------- MODULE Spec2Model ----------------------------
(***************************************************************************)
(* A model of scripts/write-api-docs.js: the tree matcher (find, match),   *)
(* the type assertion, the property extractors, the route model builder,   *)
(* the authentication strategy normaliser and the generation run           *)
(* (parseRoutes -> generateOutput -> writeOutput).                         *)
(*                                                                         *)
(* JavaScript values are tagged records, so that any two of them compare:  *)
(*   [k |-> "s", v |-> "abc"]      a string                                *)
(*   [k |-> "b", v |-> "false"]    a boolean                               *)
(*   [k |-> "u", v |-> "null"]     null, and "undefined" likewise          *)
(*   [k |-> "o", v |-> <<[key |-> "type", val |-> ...], ...>>]  an object, *)
(*                                 its own keys in insertion order         *)
(*   [k |-> "a", v |-> <<[key |-> "0", val |-> ...], ...>>]     an array   *)
(* The position attributes acorn adds to every node (start, end, loc) are  *)
(* left out: they are numbers and objects of numbers, which no criteria    *)
(* of the script (all strings) can match, and the script reads them only   *)
(* to word an error that is thrown in any case.                            *)
(***************************************************************************)
EXTENDS Integers, Sequences, FiniteSets, TLC

VARIABLES pc, arg, res, files, document, written

vars == <<pc, arg, res, files, document, written>>

---------------------------------------------------------------------------
(* JavaScript values *)

Str(s) == [k |-> "s", v |-> s]
Bool(b) == [k |-> "b", v |-> IF b THEN "true" ELSE "false"]
Undefined == [k |-> "u", v |-> "undefined"]
Null == [k |-> "u", v |-> "null"]
KV(key, val) == [key |-> key, val |-> val]
Obj(kvs) == [k |-> "o", v |-> kvs]
Arr(elements) ==
  [k |-> "a",
   v |-> [i \in 1..Len(elements) |-> KV(ToString(i - 1), elements[i])]]

\* The values of an array node, in index order.
Elements(a) == [i \in 1..Len(a.v) |-> a.v[i].val]

\* if (! node): undefined, null, '' and false are falsy.
Truthy(x) ==
  CASE x.k = "u" -> FALSE
    [] x.k = "s" -> x.v # ""
    [] x.k = "b" -> x.v = "true"
    [] OTHER -> TRUE

IsNullish(x) == x.k = "u"

isObject(node) == node.k \in {"o", "a"}

\* node[key]: undefined when node has no such own key (or is a primitive).
Prop(node, key) ==
  IF isObject(node) /\ \E i \in 1..Len(node.v) : node.v[i].key = key
  THEN node.v[CHOOSE i \in 1..Len(node.v) : node.v[i].key = key].val
  ELSE Undefined

\* node === criteria, for a node that is not an object.
StrictEquals(node, criteria) ==
  /\ ~isObject(criteria)
  /\ node.k = criteria.k
  /\ node.v = criteria.v

RECURSIVE Flatten(_)
Flatten(seqs) ==
  IF seqs = <<>> THEN <<>> ELSE Head(seqs) \o Flatten(Tail(seqs))

RECURSIVE Join(_, _)
Join(strings, sep) ==
  IF strings = <<>> THEN ""
  ELSE IF Len(strings) = 1 THEN strings[1]
  ELSE strings[1] \o sep \o Join(Tail(strings), sep)

---------------------------------------------------------------------------
(* Results: a returned value, or a thrown TypeError *)

Ok(val) == [ok |-> TRUE, val |-> val, err |-> ""]
Throw(message) == [ok |-> FALSE, val |-> Undefined, err |-> message]

\* const name = value; the value is computed once, where it is declared.
Let(value, In(_)) == CHOOSE out \in {In(name) : name \in {value}} : TRUE

FILE_PATH == "lib/routes/account.js"

\* Two results are the same: the same error, or the same returned value.
Same(r1, r2) ==
  /\ r1.ok = r2.ok
  /\ r1.err = r2.err
  /\ r1.ok => r1.val = r2.val

\* fail(message, filePath): the line number is left out with the positions.
fail(message, filePath) ==
  IF filePath # ""
  THEN Throw("Error parsing \"" \o filePath \o "\":\n" \o message)
  ELSE Throw(message)

\* What the runtime throws for a property read of undefined or null.
PropertyOfNullish == Throw("TypeError: Cannot read property of undefined")

FUNCTION_EXPRESSION_TYPES == <<"FunctionExpression", "ArrowFunctionExpression">>
ARRAY_TYPES == <<"ArrayExpression">>
RETURN_TYPES == <<"ReturnStatement">>
OBJECT_TYPES == <<"ObjectExpression">>
LITERAL_TYPES == <<"Literal">>
IDENTIFIER_TYPES == <<"Identifier">>

Has(types, nodeType) ==
  /\ nodeType.k = "s"
  /\ \E i \in 1..Len(types) : types[i] = nodeType.v

---------------------------------------------------------------------------
(* The tree matcher *)

RECURSIVE match(_, _)
match(node, criteria) ==
  IF ~isObject(node) THEN StrictEquals(node, criteria)
  ELSE IF ~isObject(criteria) THEN FALSE
  ELSE \A ck \in 1..Len(criteria.v) :
         \E nk \in 1..Len(node.v) :
           match(node.v[nk].val, criteria.v[ck].val)

NoOptions == [array |-> FALSE, recursive |-> FALSE]
ArrayOption == [array |-> TRUE, recursive |-> FALSE]
RecursiveOption == [array |-> FALSE, recursive |-> TRUE]

RECURSIVE find(_, _, _)

\* find with the searches of the attributes concatenated in reverse.
findReversed(node, criteria, options) ==
  IF match(node, criteria) THEN <<node>>
  ELSE IF node.k = "a" /\ options.array
  THEN Flatten([i \in 1..Len(node.v) |->
                  find(node.v[Len(node.v) + 1 - i].val, criteria, options)])
  ELSE IF isObject(node) /\ options.recursive
  THEN Flatten([i \in 1..Len(node.v) |->
                  find(node.v[Len(node.v) + 1 - i].val, criteria, options)])
  ELSE <<>>

find(node, criteria, options) ==
  IF match(node, criteria) THEN <<node>>
  ELSE IF node.k = "a" /\ options.array
  THEN Flatten([i \in 1..Len(node.v) |->
                  find(node.v[i].val, criteria, options)])
  ELSE IF isObject(node) /\ options.recursive
  THEN Flatten([i \in 1..Len(node.v) |->
                  find(node.v[i].val, criteria, options)])
  ELSE <<>>

\* assertType(node, types, filePath): Ok, or the error it throws.
assertType(node, types, filePath) ==
  IF ~Truthy(node)
  THEN fail("Expected type [" \o Join(types, ",") \o "], found nothing",
            filePath)
  ELSE IF ~Has(types, Prop(node, "type"))
  THEN fail("Expected type [" \o Join(types, ",") \o "], found \""
              \o Prop(node, "type").v \o "\"", filePath)
  ELSE Ok(Undefined)

---------------------------------------------------------------------------
(* The nodes acorn.parse produces (ESTree), keys in acorn's order *)

Identifier(name) ==
  Obj(<<KV("type", Str("Identifier")), KV("name", Str(name))>>)
Literal(value) ==
  Obj(<<KV("type", Str("Literal")), KV("value", Str(value)),
        KV("raw", Str("'" \o value \o "'"))>>)
BooleanLiteral(b) ==
  Obj(<<KV("type", Str("Literal")), KV("value", Bool(b)),
        KV("raw", Str(Bool(b).v))>>)
MemberExpression(object, property) ==
  Obj(<<KV("type", Str("MemberExpression")), KV("object", object),
        KV("property", property), KV("computed", Bool(FALSE))>>)
AssignmentExpression(left, right) ==
  Obj(<<KV("type", Str("AssignmentExpression")), KV("operator", Str("=")),
        KV("left", left), KV("right", right)>>)
ExpressionStatement(expression) ==
  Obj(<<KV("type", Str("ExpressionStatement")),
        KV("expression", expression)>>)
\* A directive ('use strict') is an expression statement with one more key.
Directive(text) ==
  Obj(<<KV("type", Str("ExpressionStatement")),
        KV("expression", Literal(text)), KV("directive", Str(text))>>)
BlockStatement(body) ==
  Obj(<<KV("type", Str("BlockStatement")), KV("body", Arr(body))>>)
FunctionExpression(body) ==
  Obj(<<KV("type", Str("FunctionExpression")), KV("id", Null),
        KV("generator", Bool(FALSE)), KV("expression", Bool(FALSE)),
        KV("params", Arr(<<>>)), KV("body", BlockStatement(body))>>)
\* An arrow function whose body is an expression.
ArrowFunctionExpression(body) ==
  Obj(<<KV("type", Str("ArrowFunctionExpression")), KV("id", Null),
        KV("generator", Bool(FALSE)), KV("expression", Bool(TRUE)),
        KV("params", Arr(<<>>)), KV("body", body)>>)
ReturnStatement(argument) ==
  Obj(<<KV("type", Str("ReturnStatement")), KV("argument", argument)>>)
VariableDeclarator(id, init) ==
  Obj(<<KV("type", Str("VariableDeclarator")), KV("id", id),
        KV("init", init)>>)
VariableDeclaration(declarations) ==
  Obj(<<KV("type", Str("VariableDeclaration")),
        KV("declarations", Arr(declarations)), KV("kind", Str("var"))>>)
IfStatement(test, consequent) ==
  Obj(<<KV("type", Str("IfStatement")), KV("test", test),
        KV("consequent", consequent), KV("alternate", Null)>>)
ArrayExpression(elements) ==
  Obj(<<KV("type", Str("ArrayExpression")), KV("elements", Arr(elements))>>)
Property(key, value) ==
  Obj(<<KV("type", Str("Property")), KV("method", Bool(FALSE)),
        KV("shorthand", Bool(FALSE)), KV("computed", Bool(FALSE)),
        KV("key", key), KV("value", value), KV("kind", Str("init"))>>)
ObjectExpression(properties) ==
  Obj(<<KV("type", Str("ObjectExpression")),
        KV("properties", Arr(properties))>>)
Program(body) ==
  Obj(<<KV("type", Str("Program")), KV("body", Arr(body)),
        KV("sourceType", Str("script"))>>)

TypeIs(node, type) == Prop(node, "type") = Str(type)

---------------------------------------------------------------------------
(* The route model builder *)

ExportCriteria ==
  Obj(<<KV("type", Str("ExpressionStatement")),
        KV("expression",
           Obj(<<KV("type", Str("AssignmentExpression")),
                 KV("left",
                    Obj(<<KV("type", Str("MemberExpression")),
                          KV("object",
                             Obj(<<KV("type", Str("Identifier")),
                                   KV("name", Str("module"))>>)),
                          KV("property",
                             Obj(<<KV("type", Str("Identifier")),
                                   KV("name", Str("exports"))>>))>>))>>))>>)

findExportedFunction(node, filePath) ==
  LET exported == find(node, ExportCriteria, RecursiveOption) IN
  IF Len(exported) # 1
  THEN fail("Expected 1 export, found " \o ToString(Len(exported)), filePath)
  ELSE
    LET expression == Prop(exported[1], "expression") IN
    IF IsNullish(expression) THEN PropertyOfNullish
    ELSE
      LET exportedFunction == Prop(expression, "right")
          asserted == assertType(exportedFunction, FUNCTION_EXPRESSION_TYPES,
                                 filePath)
      IN IF ~asserted.ok THEN asserted
         ELSE Ok(Prop(exportedFunction, "body"))

ReturnCriteria == Obj(<<KV("type", Str("ReturnStatement"))>>)

DeclaratorCriteria(name) ==
  Obj(<<KV("type", Str("VariableDeclarator")),
        KV("id", Obj(<<KV("type", Str("Identifier")), KV("name", name)>>))>>)

\* Lines 251-272: the returned expression, resolved when it is a name.
resolveReturnedData(functionNode, returnedData, filePath) ==
  IF IsNullish(returnedData) THEN PropertyOfNullish
  ELSE
    LET routeDefinitions ==
          find(functionNode, DeclaratorCriteria(Prop(returnedData, "name")),
               RecursiveOption)
        byName == TypeIs(returnedData, "Identifier")
        resolved == IF byName THEN Prop(routeDefinitions[1], "init")
                    ELSE returnedData
    IN
    IF byName /\ Len(routeDefinitions) # 1
    THEN fail("Expected 1 set of route definitions, found "
                \o ToString(Len(routeDefinitions)), filePath)
    ELSE
      LET asserted == assertType(resolved, ARRAY_TYPES, filePath) IN
      IF ~asserted.ok THEN asserted
      ELSE Ok(Elements(Prop(resolved, "elements")))

\* findReturnedData searching the body with {recursive: true}.
findReturnedDataDeep(functionNode, filePath) ==
  IF TypeIs(functionNode, "BlockStatement")
  THEN
    LET returned == find(Prop(functionNode, "body"), ReturnCriteria,
                         RecursiveOption)
    IN
    IF Len(returned) # 1
    THEN fail("Expected 1 return statement, found "
                \o ToString(Len(returned)), filePath)
    ELSE resolveReturnedData(functionNode, Prop(returned[1], "argument"),
                             filePath)
  ELSE assertType(Undefined, RETURN_TYPES, filePath)

findReturnedData(functionNode, filePath) ==
  IF TypeIs(functionNode, "BlockStatement")
  THEN
    LET returned == find(Prop(functionNode, "body"), ReturnCriteria,
                         ArrayOption)
    IN
    IF Len(returned) # 1
    THEN fail("Expected 1 return statement, found "
                \o ToString(Len(returned)), filePath)
    ELSE resolveReturnedData(functionNode, Prop(returned[1], "argument"),
                             filePath)
  ELSE
    \* returnedData is still undefined when it is asserted (line 247)
    LET asserted == assertType(Undefined, RETURN_TYPES, filePath) IN
    IF ~asserted.ok THEN asserted
    ELSE resolveReturnedData(functionNode, Prop(functionNode, "argument"),
                             filePath)

---------------------------------------------------------------------------
(* The property extractors *)

PropertyCriteria(key) ==
  Obj(<<KV("type", Str("Property")), KV("kind", Str("init")),
        KV("key", Obj(<<KV("type", Str("Identifier")),
                        KV("name", Str(key))>>))>>)

\* findProperty taking the last node find returns instead of the first.
findPropertyLast(node, key, types, filePath) ==
  Let(find(Prop(node, "properties"), PropertyCriteria(key), ArrayOption),
      LAMBDA results :
  IF results = <<>> THEN Ok(Undefined)
  ELSE
    Let(Prop(results[Len(results)], "value"), LAMBDA value :
    Let(assertType(value, types, filePath), LAMBDA asserted :
    IF ~asserted.ok THEN asserted ELSE Ok(value))))

findProperty(node, key, types, filePath) ==
  Let(find(Prop(node, "properties"), PropertyCriteria(key), ArrayOption),
      LAMBDA results :
  IF results = <<>> THEN Ok(Undefined)
  ELSE
    Let(Prop(results[1], "value"), LAMBDA value :
    Let(assertType(value, types, filePath), LAMBDA asserted :
    IF ~asserted.ok THEN asserted ELSE Ok(value))))

\* findProperty(...).value, as findRoutePath and findRouteMethod read it.
literalValue(found) ==
  IF ~found.ok THEN found
  ELSE IF IsNullish(found.val) THEN PropertyOfNullish
  ELSE Ok(Prop(found.val, "value"))

findRoutePath(route, filePath) ==
  Let(findProperty(route, "path", LITERAL_TYPES, filePath), literalValue)

findRouteMethod(route, filePath) ==
  Let(findProperty(route, "method", LITERAL_TYPES, filePath), literalValue)

findRouteConfig(route, filePath) ==
  findProperty(route, "config", OBJECT_TYPES, filePath)

findRouteValidation(routeConfig, filePath) ==
  findProperty(routeConfig, "validate", OBJECT_TYPES, filePath)

findRouteResponse(routeConfig, filePath) ==
  findProperty(routeConfig, "response", OBJECT_TYPES, filePath)

findRouteHandler(route, filePath) ==
  Let(findProperty(route, "handler", FUNCTION_EXPRESSION_TYPES, filePath),
      LAMBDA tried :
  IF tried.ok /\ ~IsNullish(tried.val)
  THEN Ok(Prop(tried.val, "value"))
  ELSE
    \* catch (error): the handler's name is read and dropped
    Let(findProperty(route, "handler", IDENTIFIER_TYPES, filePath),
        LAMBDA named :
    IF ~named.ok THEN named
    ELSE IF IsNullish(named.val) THEN PropertyOfNullish
    ELSE Ok(Undefined)))

---------------------------------------------------------------------------
(* The authentication strategy normaliser *)

SESSION_TOKEN_STRATEGY == "sessionToken"
KEY_FETCH_TOKEN_STRATEGY == "keyFetchToken"

\* String(x), as RegExp.prototype.test and Array.prototype.join convert.
ToText(x) == x.v

\* /^prefix/.test(text)
StartsWith(text, prefix) ==
  /\ Len(text) >= Len(prefix)
  /\ SubSeq(text, 1, Len(prefix)) = prefix

\* text.endsWith(suffix)
EndsWith(text, suffix) ==
  /\ Len(text) >= Len(suffix)
  /\ SubSeq(text, Len(text) - Len(suffix) + 1, Len(text)) = suffix

\* marshallStrategy matching the whole name instead of its prefix.
marshallStrategyExact(strategy) ==
  IF ToText(strategy) = SESSION_TOKEN_STRATEGY THEN Str("sessionToken")
  ELSE IF ToText(strategy) = KEY_FETCH_TOKEN_STRATEGY
  THEN Str("keyFetchToken")
  ELSE strategy

marshallStrategy(strategy) ==
  IF StartsWith(ToText(strategy), SESSION_TOKEN_STRATEGY)
  THEN Str("sessionToken")
  ELSE IF StartsWith(ToText(strategy), KEY_FETCH_TOKEN_STRATEGY)
  THEN Str("keyFetchToken")
  ELSE strategy

\* The reduce of lines 321-326: push what indexOf does not find.
RECURSIVE dedupe(_, _)
dedupe(deduped, strategies) ==
  IF strategies = <<>> THEN deduped
  ELSE IF \E i \in 1..Len(deduped) : deduped[i] = Head(strategies)
  THEN dedupe(deduped, Tail(strategies))
  ELSE dedupe(Append(deduped, Head(strategies)), Tail(strategies))

\* The map of lines 317-320: the first element that fails assertType throws.
marshallStrategies(elements, filePath) ==
  LET bad == {i \in 1..Len(elements) :
                ~assertType(elements[i], LITERAL_TYPES, filePath).ok}
  IN
  IF bad # {}
  THEN assertType(elements[CHOOSE i \in bad : \A j \in bad : i <= j],
                  LITERAL_TYPES, filePath)
  ELSE Ok([i \in 1..Len(elements) |->
             marshallStrategy(Prop(elements[i], "value"))])

\* The object { optional, type } of line 339.
Descriptor(optional, type) ==
  [k |-> "d", v |-> [optional |-> optional, type |-> type]]

\* Lines 315-333 with strategy read too when the strategies are empty.
authenticationTypeOrStrategy(auth, filePath) ==
  Let(findProperty(auth, "strategies", ARRAY_TYPES, filePath),
      LAMBDA strategies :
  IF ~strategies.ok THEN strategies
  ELSE IF /\ Truthy(strategies.val)
          /\ Prop(strategies.val, "elements").v # <<>>
  THEN Let(marshallStrategies(Elements(Prop(strategies.val, "elements")),
                              filePath),
           LAMBDA marshalled :
       IF ~marshalled.ok THEN marshalled
       ELSE Let(dedupe(<<>>, marshalled.val), LAMBDA deduped :
            Ok(Str(Join([i \in 1..Len(deduped) |-> ToText(deduped[i])],
                        ", ")))))
  ELSE Let(findProperty(auth, "strategy", LITERAL_TYPES, filePath),
           LAMBDA strategy :
       IF ~strategy.ok THEN strategy
       ELSE IF Truthy(strategy.val)
       THEN Ok(marshallStrategy(Prop(strategy.val, "value")))
       ELSE Ok(Undefined)))

\* Lines 315-333: the type, undefined when no strategy is given.
authenticationType(auth, filePath) ==
  Let(findProperty(auth, "strategies", ARRAY_TYPES, filePath),
      LAMBDA strategies :
  IF ~strategies.ok THEN strategies
  ELSE IF Truthy(strategies.val)
  THEN Let(marshallStrategies(Elements(Prop(strategies.val, "elements")),
                              filePath),
           LAMBDA marshalled :
       IF ~marshalled.ok THEN marshalled
       ELSE Let(dedupe(<<>>, marshalled.val), LAMBDA deduped :
            Ok(Str(Join([i \in 1..Len(deduped) |-> ToText(deduped[i])],
                        ", ")))))
  ELSE Let(findProperty(auth, "strategy", LITERAL_TYPES, filePath),
           LAMBDA strategy :
       IF ~strategy.ok THEN strategy
       ELSE IF Truthy(strategy.val)
       THEN Ok(marshallStrategy(Prop(strategy.val, "value")))
       ELSE Ok(Undefined)))

findRouteAuthentication(routeConfig, filePath) ==
  Let(findProperty(routeConfig, "auth", OBJECT_TYPES, filePath),
      LAMBDA routeAuthentication :
  IF ~routeAuthentication.ok THEN routeAuthentication
  ELSE IF ~Truthy(routeAuthentication.val) THEN Ok(Undefined)
  ELSE
    Let(findProperty(routeAuthentication.val, "mode", LITERAL_TYPES, filePath),
        LAMBDA mode :
    IF ~mode.ok THEN mode
    ELSE
      Let(authenticationType(routeAuthentication.val, filePath),
          LAMBDA type :
      IF ~type.ok THEN type
      ELSE IF ~Truthy(type.val)
      THEN fail("Missing authentication strategy", filePath)
      ELSE Ok(Descriptor(/\ Truthy(mode.val)
                         /\ Prop(mode.val, "value")
                              \in {Str("try"), Str("optional")},
                         type.val)))))

---------------------------------------------------------------------------
(* The generation run *)

\* The body of routes.forEach (lines 101-129) for one route: what it adds to
\* the document, or the error it throws. Rendering to Markdown is left out:
\* a contents entry and a body entry keep the values that are rendered.
processRoute(route, filePath) ==
  Let(assertType(route, OBJECT_TYPES, filePath), LAMBDA isObjectNode :
  IF ~isObjectNode.ok THEN isObjectNode ELSE
  Let(findRouteMethod(route, filePath), LAMBDA routeMethod :
  IF ~routeMethod.ok THEN routeMethod ELSE
  Let(findRoutePath(route, filePath), LAMBDA routePath :
  IF ~routePath.ok THEN routePath ELSE
  Let(findRouteConfig(route, filePath), LAMBDA routeConfig :
  IF ~routeConfig.ok THEN routeConfig ELSE
  \* if (routeConfig) { ... }
  Let(IF Truthy(routeConfig.val)
      THEN findRouteAuthentication(routeConfig.val, filePath)
      ELSE Ok(Undefined), LAMBDA routeAuthentication :
  IF ~routeAuthentication.ok THEN routeAuthentication ELSE
  Let(IF Truthy(routeConfig.val)
      THEN findRouteValidation(routeConfig.val, filePath)
      ELSE Ok(Undefined), LAMBDA routeValidation :
  IF ~routeValidation.ok THEN routeValidation ELSE
  Let(IF Truthy(routeConfig.val)
      THEN findRouteResponse(routeConfig.val, filePath)
      ELSE Ok(Undefined), LAMBDA routeResponse :
  IF ~routeResponse.ok THEN routeResponse ELSE
  Let(findRouteHandler(route, filePath), LAMBDA routeHandler :
  IF ~routeHandler.ok THEN routeHandler ELSE
  Ok([title |-> ToText(routeMethod.val) \o " " \o ToText(routePath.val),
      authentication |-> routeAuthentication.val,
      validation |-> routeValidation.val,
      response |-> routeResponse.val,
      handler |-> routeHandler.val])))))))))

\* routes.forEach: the first route that throws ends the loop.
RECURSIVE processRoutes(_, _, _)
processRoutes(routes, filePath, entries) ==
  IF routes = <<>> THEN Ok(entries)
  ELSE
    Let(processRoute(Head(routes), filePath), LAMBDA entry :
    IF ~entry.ok THEN entry
    ELSE Let(Append(entries, entry.val), LAMBDA added :
         processRoutes(Tail(routes), filePath, added)))

\* The callback of files.reduce (lines 93-130) for one file.
processFile(file) ==
  Let(findExportedFunction(file.ast, file.path), LAMBDA exportedFunction :
  IF ~exportedFunction.ok THEN exportedFunction ELSE
  Let(findReturnedData(exportedFunction.val, file.path), LAMBDA routes :
  IF ~routes.ok THEN routes
  ELSE processRoutes(routes.val, file.path, <<>>)))

EmptyDocument == [contents |-> <<>>, body |-> <<>>]

RECURSIVE generateOutput(_, _)

\* generateOutput leaving out a file whose extraction throws.
generateOutputBestEffort(doc, fileList) ==
  IF fileList = <<>> THEN Ok(doc)
  ELSE
    Let(Head(fileList), LAMBDA file :
    Let(processFile(file), LAMBDA entries :
    IF ~entries.ok THEN generateOutput(doc, Tail(fileList))
    ELSE Let([contents |-> doc.contents \o <<file.path>>
                             \o [i \in 1..Len(entries.val) |->
                                   entries.val[i].title],
              body |-> doc.body \o entries.val],
             LAMBDA output : generateOutput(output, Tail(fileList)))))

generateOutput(doc, fileList) ==
  IF fileList = <<>> THEN Ok(doc)
  ELSE
    Let(Head(fileList), LAMBDA file :
    Let(processFile(file), LAMBDA entries :
    IF ~entries.ok THEN entries
    ELSE Let([contents |-> doc.contents \o <<file.path>>
                             \o [i \in 1..Len(entries.val) |->
                                   entries.val[i].title],
              body |-> doc.body \o entries.val],
             LAMBDA output : generateOutput(output, Tail(fileList)))))

---------------------------------------------------------------------------
(* find on its own: every tree of at most MaxNodes nodes *)

MaxNodes == 5

Scalars == {Str("x"), Str("y")}

RECURSIVE TreesOfSize(_)
TreesOfSize(n) ==
  IF n = 1 THEN Scalars \cup {Obj(<<>>)}
  ELSE
    {Obj(<<KV(key, child)>>) :
       key \in {"a", "b"}, child \in TreesOfSize(n - 1)}
    \cup {Arr(<<child>>) : child \in TreesOfSize(n - 1)}
    \cup UNION {
           {Obj(<<KV(keys[1], first), KV(keys[2], second)>>) :
              keys \in {<<"a", "b">>, <<"b", "a">>},
              first \in TreesOfSize(i),
              second \in TreesOfSize(n - 1 - i)} :
           i \in 1..(n - 2)}

Trees == UNION {TreesOfSize(n) : n \in 1..MaxNodes}

\* Criteria as the script writes them: a scalar, one key, two keys, nested.
CriteriaSet ==
  {Str("x"),
   Obj(<<>>),
   Obj(<<KV("a", Str("x"))>>),
   Obj(<<KV("a", Str("x")), KV("b", Str("y"))>>),
   Obj(<<KV("a", Obj(<<KV("a", Str("x"))>>))>>)}

None == [k |-> "u", v |-> "not called"]

NoFiles == <<>>

\* What has been written to the output path: nothing yet.
NotWritten == <<>>

InitFind ==
  /\ pc = "find"
  /\ arg \in [node : Trees, criteria : CriteriaSet,
              options : {RecursiveOption}]
  /\ res = None
  /\ files = NoFiles
  /\ document = EmptyDocument
  /\ written = NotWritten

CallFind ==
  /\ pc = "find"
  /\ res' = find(arg.node, arg.criteria, arg.options)
  /\ pc' = "found"
  /\ UNCHANGED <<arg, files, document, written>>

SpecFind == InitFind /\ [][CallFind]_vars

---------------------------------------------------------------------------
(* C1: what find returns under {recursive: true} *)

\* The places of a tree: the child indices from the root down to a node.
RECURSIVE PathsOf(_)
PathsOf(node) ==
  {<<>>} \cup
    (IF isObject(node)
     THEN UNION {{<<i>> \o p : p \in PathsOf(node.v[i].val)} :
                   i \in 1..Len(node.v)}
     ELSE {})

RECURSIVE At(_, _)
At(node, path) ==
  IF path = <<>> THEN node ELSE At(node.v[Head(path)].val, Tail(path))

IsProperPrefix(p, q) == Len(p) < Len(q) /\ SubSeq(q, 1, Len(p)) = p

\* Depth-first, attribute-declaration order: a node before its descendants,
\* an earlier attribute's subtree before a later one's.
Before(p, q) ==
  \/ IsProperPrefix(p, q)
  \/ \E i \in 1..Len(p) :
       /\ i <= Len(q)
       /\ SubSeq(p, 1, i - 1) = SubSeq(q, 1, i - 1)
       /\ p[i] < q[i]

RECURSIVE InOrder(_)
InOrder(paths) ==
  IF paths = {} THEN <<>>
  ELSE LET first == CHOOSE p \in paths : \A q \in paths : p = q \/ Before(p, q)
       IN <<first>> \o InOrder(paths \ {first})

NodesAt(node, paths) ==
  LET ordered == InOrder(paths) IN
  [i \in 1..Len(ordered) |-> At(node, ordered[i])]

Matching(node, criteria) ==
  {p \in PathsOf(node) : match(At(node, p), criteria)}

\* The matching nodes that lie inside no other matching node.
Outermost(node, criteria) ==
  {p \in Matching(node, criteria) :
     \A q \in Matching(node, criteria) : ~IsProperPrefix(q, p)}

\* C1 as claimed: under {recursive: true} find returns every node of the tree,
\* at any depth, that matches the criteria, in depth-first
\* attribute-declaration order, and no other node.
C1_AllMatchingNodes ==
  (pc = "found" /\ arg.options.recursive)
    => res = NodesAt(arg.node, Matching(arg.node, arg.criteria))

\* C1 as amended: under {recursive: true} find returns exactly the matching
\* nodes that lie inside no other matching node (the search does not descend
\* into a node that matches), in depth-first attribute-declaration order.
C1_OutermostMatchingNodes ==
  (pc = "found" /\ arg.options.recursive)
    => res = NodesAt(arg.node, Outermost(arg.node, arg.criteria))

\* A node below the root is returned, and a matching node inside it is not.
C1_Witness ==
  /\ pc = "found"
  /\ arg.options.recursive
  /\ Len(res) >= 1
  /\ <<>> \notin Matching(arg.node, arg.criteria)
  /\ Matching(arg.node, arg.criteria) # Outermost(arg.node, arg.criteria)

---------------------------------------------------------------------------
(* findExportedFunction on its own: programs of at most MaxStatements *)
(* statements                                                          *)

MaxStatements == 2

ModuleExports == MemberExpression(Identifier("module"), Identifier("exports"))

ReturnEmptyArray == ReturnStatement(ArrayExpression(<<>>))

Assign(left, right) == ExpressionStatement(AssignmentExpression(left, right))

\* module.exports = function () { return [] }
ExportFunction == Assign(ModuleExports, FunctionExpression(<<ReturnEmptyArray>>))

ProgramStatements ==
  {ExportFunction,
   \* module.exports = () => []
   Assign(ModuleExports, ArrowFunctionExpression(ArrayExpression(<<>>))),
   \* module.exports = {}
   Assign(ModuleExports, ObjectExpression(<<>>)),
   \* module.exports = function () { module.exports = {}; return [] }
   Assign(ModuleExports,
          FunctionExpression(<<Assign(ModuleExports, ObjectExpression(<<>>)),
                               ReturnEmptyArray>>)),
   \* if (legacy) { module.exports = function () { return [] } }
   IfStatement(Identifier("legacy"), BlockStatement(<<ExportFunction>>)),
   \* previous = module.exports
   Assign(Identifier("previous"), ModuleExports),
   \* exports.module = function () { return [] }
   Assign(MemberExpression(Identifier("exports"), Identifier("module")),
          FunctionExpression(<<ReturnEmptyArray>>)),
   \* module.exports.routes = function () { return [] }
   Assign(MemberExpression(ModuleExports, Identifier("routes")),
          FunctionExpression(<<ReturnEmptyArray>>)),
   \* var isA = require('joi')
   VariableDeclaration(<<VariableDeclarator(Identifier("isA"),
                                            Identifier("require"))>>)}

SeqsUpTo(set, n) == UNION {[1..m -> set] : m \in 0..n}

Programs == {Program(body) : body \in SeqsUpTo(ProgramStatements, MaxStatements)}

InitExport ==
  /\ pc = "findExportedFunction"
  /\ arg \in Programs
  /\ res = None
  /\ files = NoFiles
  /\ document = EmptyDocument
  /\ written = NotWritten

CallFindExportedFunction ==
  /\ pc = "findExportedFunction"
  /\ res' = findExportedFunction(arg, FILE_PATH)
  /\ pc' = "exported"
  /\ UNCHANGED <<arg, files, document, written>>

SpecExport == InitExport /\ [][CallFindExportedFunction]_vars

---------------------------------------------------------------------------
(* C2: the export assignments findExportedFunction counts *)

IsIdentifier(node, name) ==
  TypeIs(node, "Identifier") /\ Prop(node, "name") = Str(name)

\* A statement that assigns to module.exports.
IsExportAssignment(node) ==
  /\ TypeIs(node, "ExpressionStatement")
  /\ TypeIs(Prop(node, "expression"), "AssignmentExpression")
  /\ LET left == Prop(Prop(node, "expression"), "left") IN
       /\ TypeIs(left, "MemberExpression")
       /\ IsIdentifier(Prop(left, "object"), "module")
       /\ IsIdentifier(Prop(left, "property"), "exports")

ExportAssignments(tree) ==
  {p \in PathsOf(tree) : IsExportAssignment(At(tree, p))}

IsFunctionNode(node) ==
  TypeIs(node, "FunctionExpression") \/ TypeIs(node, "ArrowFunctionExpression")

\* C2: with N the number of export assignments in the file's tree,
\* findExportedFunction fails with 'Expected 1 export, found N' when N # 1 and
\* returns the body of the assigned function when N = 1; a statement that
\* does not assign to module.exports is never counted.
C2_ExactlyOneExport ==
  pc = "exported" =>
    LET exports == ExportAssignments(arg)
        N == Cardinality(exports)
    IN
    IF N # 1
    THEN Same(res, fail("Expected 1 export, found " \o ToString(N),
                        FILE_PATH))
    ELSE LET right == Prop(Prop(At(arg, CHOOSE p \in exports : TRUE),
                                "expression"), "right")
         IN IsFunctionNode(right) => Same(res, Ok(Prop(right, "body")))

---------------------------------------------------------------------------
(* findReturnedData on its own: function bodies of at most          *)
(* MaxBodyStatements statements, and bodies that are an expression  *)

MaxBodyStatements == 3

\* { method: 'GET', path: '/foo', handler: function () { return reply } }
FooRoute ==
  ObjectExpression(<<
    Property(Identifier("method"), Literal("GET")),
    Property(Identifier("path"), Literal("/foo")),
    Property(Identifier("handler"),
             FunctionExpression(<<ReturnStatement(Identifier("reply"))>>))>>)

\* { method: 'POST', path: '/bar', handler: create }
BarRoute ==
  ObjectExpression(<<
    Property(Identifier("method"), Literal("POST")),
    Property(Identifier("path"), Literal("/bar")),
    Property(Identifier("handler"), Identifier("create"))>>)

RouteArray == ArrayExpression(<<FooRoute, BarRoute>>)

DeclareRoutes ==
  VariableDeclaration(<<VariableDeclarator(Identifier("routes"), RouteArray)>>)

BodyStatements ==
  {\* return [ {...}, {...} ]
   ReturnStatement(RouteArray),
   \* return routes
   ReturnStatement(Identifier("routes")),
   \* return
   ReturnStatement(Null),
   \* var routes = [ {...}, {...} ]
   DeclareRoutes,
   \* var legacy = routes
   VariableDeclaration(<<VariableDeclarator(Identifier("legacy"),
                                            Identifier("routes"))>>),
   \* if (disabled) { return [] }
   IfStatement(Identifier("disabled"), BlockStatement(<<ReturnEmptyArray>>)),
   \* 'ReturnStatement'
   Directive("ReturnStatement")}

FunctionBodies ==
  {BlockStatement(body) : body \in SeqsUpTo(BodyStatements, MaxBodyStatements)}
  \cup {RouteArray, ArrayExpression(<<>>), Identifier("routes"),
        ObjectExpression(<<>>)}

InitReturn ==
  /\ pc = "findReturnedData"
  /\ arg \in FunctionBodies
  /\ res = None
  /\ files = NoFiles
  /\ document = EmptyDocument
  /\ written = NotWritten

CallFindReturnedData ==
  /\ pc = "findReturnedData"
  /\ res' = findReturnedData(arg, FILE_PATH)
  /\ pc' = "returned"
  /\ UNCHANGED <<arg, files, document, written>>

SpecReturn == InitReturn /\ [][CallFindReturnedData]_vars

---------------------------------------------------------------------------
(* C3, C4, C10: the returned route array *)

IsBlock(node) == TypeIs(node, "BlockStatement")

Statements(block) == Elements(Prop(block, "body"))

\* The return statements among the block's own statements.
DirectReturns(block) ==
  {i \in 1..Len(Statements(block)) :
     TypeIs(Statements(block)[i], "ReturnStatement")}

\* The declarations, anywhere in the tree, that bind the name.
DeclarationsOf(tree, name) ==
  {p \in PathsOf(tree) :
     /\ TypeIs(At(tree, p), "VariableDeclarator")
     /\ Prop(At(tree, p), "id") = Identifier(name)}

\* The body that returns the array literal itself where the block returns a
\* name.
Inlined(block, array) ==
  BlockStatement([i \in 1..Len(Statements(block)) |->
                    IF i \in DirectReturns(block) THEN ReturnStatement(array)
                    ELSE Statements(block)[i]])

\* The block returns a name that exactly one declaration binds, to an array.
ReturnsArrayByName(block) ==
  /\ IsBlock(block)
  /\ Cardinality(DirectReturns(block)) = 1
  /\ LET returned == Prop(Statements(block)[CHOOSE i \in DirectReturns(block) :
                                              TRUE], "argument")
     IN /\ TypeIs(returned, "Identifier")
        /\ Cardinality(DeclarationsOf(block, Prop(returned, "name").v)) = 1
        /\ TypeIs(Prop(At(block, CHOOSE p \in DeclarationsOf(
                                     block, Prop(returned, "name").v) : TRUE),
                       "init"), "ArrayExpression")

DeclaredArray(block) ==
  LET returned == Prop(Statements(block)[CHOOSE i \in DirectReturns(block) :
                                           TRUE], "argument")
  IN Prop(At(block, CHOOSE p \in DeclarationsOf(
                      block, Prop(returned, "name").v) : TRUE), "init")

\* C3: when the function returns the route array by name, and exactly one
\* variable declaration in the body binds that name (to the array),
\* findReturnedData yields the same route nodes as for the body that returns
\* the array literal inline.
C3_ByNameAsInline ==
  (pc = "returned" /\ ReturnsArrayByName(arg))
    => Same(res, findReturnedData(Inlined(arg, DeclaredArray(arg)),
                                   FILE_PATH))

\* C4: when the exported function's body is not a block but an array
\* literal, findReturnedData returns its elements and raises no error.
C4_ImplicitReturn ==
  (pc = "returned" /\ ~IsBlock(arg) /\ TypeIs(arg, "ArrayExpression"))
    => Same(res, Ok(Elements(Prop(arg, "elements"))))

\* The return statements anywhere inside the body.
ReturnsInside(block) ==
  {p \in PathsOf(block) : TypeIs(At(block, p), "ReturnStatement")}

\* C10 as claimed: with N the number of return statements inside a block
\* body, findReturnedData fails with 'Expected 1 return statement, found N'
\* when N # 1 and uses the one statement's argument when N = 1.
C10_OneReturnInside ==
  (pc = "returned" /\ IsBlock(arg)) =>
    LET N == Cardinality(ReturnsInside(arg)) IN
    IF N # 1
    THEN Same(res, fail("Expected 1 return statement, found "
                          \o ToString(N), FILE_PATH))
    ELSE Same(res, resolveReturnedData(
                      arg, Prop(At(arg, CHOOSE p \in ReturnsInside(arg) : TRUE),
                                "argument"), FILE_PATH))

\* The block's own statements one of whose attributes is the string
\* 'ReturnStatement': its return statements, and a directive of that text.
CountedAsReturn(block) ==
  {i \in 1..Len(Statements(block)) :
     \E j \in 1..Len(Statements(block)[i].v) :
       Statements(block)[i].v[j].val = Str("ReturnStatement")}

\* C10 as amended: N counts only the block's own (top-level) statements that
\* match {type: 'ReturnStatement'}; a return statement nested in an inner
\* block or function is not counted.  N # 1 fails with 'Expected 1 return
\* statement, found N'; N = 1 uses that statement's argument.
C10_OneTopLevelReturn ==
  (pc = "returned" /\ IsBlock(arg)) =>
    LET N == Cardinality(CountedAsReturn(arg)) IN
    IF N # 1
    THEN Same(res, fail("Expected 1 return statement, found "
                          \o ToString(N), FILE_PATH))
    ELSE Same(res, resolveReturnedData(
                      arg, Prop(Statements(arg)[
                                  CHOOSE i \in CountedAsReturn(arg) : TRUE],
                                "argument"), FILE_PATH))

\* One top-level return beside nested ones, and the routes are returned.
C10_Witness ==
  /\ pc = "returned"
  /\ IsBlock(arg)
  /\ Cardinality(CountedAsReturn(arg)) = 1
  /\ Cardinality(ReturnsInside(arg)) > 1
  /\ res.ok
  /\ Len(res.val) = 2

---------------------------------------------------------------------------
(* findProperty and findRouteHandler on their own: object literals of at *)
(* most MaxProperties properties                                         *)

MaxProperties == 2

ObjectProperties ==
  {Property(Identifier("method"), Literal("GET")),
   Property(Identifier("path"), Literal("/foo")),
   Property(Identifier("path"), Literal("/bar")),
   \* path: prefix
   Property(Identifier("path"), Identifier("prefix")),
   \* handler: function () { return reply }
   Property(Identifier("handler"),
            FunctionExpression(<<ReturnStatement(Identifier("reply"))>>)),
   \* handler: () => reply
   Property(Identifier("handler"),
            ArrowFunctionExpression(Identifier("reply"))),
   \* handler: create
   Property(Identifier("handler"), Identifier("create")),
   \* handler: path
   Property(Identifier("handler"), Identifier("path"))}

ObjectLiterals ==
  {ObjectExpression(properties) :
     properties \in SeqsUpTo(ObjectProperties, MaxProperties)}

PropertyQueries ==
  {[key |-> "path", types |-> LITERAL_TYPES],
   [key |-> "handler", types |-> FUNCTION_EXPRESSION_TYPES],
   [key |-> "handler", types |-> IDENTIFIER_TYPES]}

InitProperty ==
  /\ \/ /\ pc = "findProperty"
        /\ arg \in {[node |-> node, key |-> q.key, types |-> q.types] :
                      node \in ObjectLiterals, q \in PropertyQueries}
     \/ /\ pc = "findRouteHandler"
        /\ arg \in {[node |-> node, key |-> "handler",
                     types |-> FUNCTION_EXPRESSION_TYPES] :
                      node \in ObjectLiterals}
  /\ res = None
  /\ files = NoFiles
  /\ document = EmptyDocument
  /\ written = NotWritten

CallFindProperty ==
  /\ pc = "findProperty"
  /\ res' = findProperty(arg.node, arg.key, arg.types, FILE_PATH)
  /\ pc' = "property"
  /\ UNCHANGED <<arg, files, document, written>>

CallFindRouteHandler ==
  /\ pc = "findRouteHandler"
  /\ res' = findRouteHandler(arg.node, FILE_PATH)
  /\ pc' = "handler"
  /\ UNCHANGED <<arg, files, document, written>>

NextProperty == CallFindProperty \/ CallFindRouteHandler

SpecProperty == InitProperty /\ [][NextProperty]_vars

---------------------------------------------------------------------------
(* C5, C6: the property that is found *)

PropertiesOf(object) == Elements(Prop(object, "properties"))

\* The properties whose key is the name.
Named(object, name) ==
  {i \in 1..Len(PropertiesOf(object)) :
     /\ TypeIs(PropertiesOf(object)[i], "Property")
     /\ Prop(PropertiesOf(object)[i], "kind") = Str("init")
     /\ Prop(PropertiesOf(object)[i], "key") = Identifier(name)}

\* The properties the criteria select: match lets any attribute of the
\* property, its key or its value, be the identifier of that name.
Selected(object, name) ==
  {i \in 1..Len(PropertiesOf(object)) :
     /\ TypeIs(PropertiesOf(object)[i], "Property")
     /\ Prop(PropertiesOf(object)[i], "kind") = Str("init")
     /\ \/ Prop(PropertiesOf(object)[i], "key") = Identifier(name)
        \/ Prop(PropertiesOf(object)[i], "value") = Identifier(name)}

Min(set) == CHOOSE i \in set : \A j \in set : i <= j

ValueOf(object, i) == Prop(PropertiesOf(object)[i], "value")

C6_InlineHandlerPresent ==
  (/\ pc = "handler"
   /\ Cardinality(Selected(arg.node, "handler")) = 1
   /\ Cardinality(Named(arg.node, "handler")) = 1) =>
    LET value == ValueOf(arg.node, Min(Named(arg.node, "handler"))) IN
    /\ IsFunctionNode(value) => (res.ok /\ Truthy(res.val) /\ res.val = value)
    /\ TypeIs(value, "Identifier") => Same(res, Ok(Undefined))

---------------------------------------------------------------------------
(* findRouteAuthentication on its own: route configs whose auth object *)
(* lists at most MaxStrategies strategies                              *)

MaxStrategies == 2

StrategyNames ==
  {"sessionTokenA", "sessionTokenB", "keyFetchTokenWithVerificationStatus",
   "oauthToken", ""}

Modes == {"try", "optional", "required"}

Absent == "(absent)"

\* The properties of an auth object: each of mode, strategies and strategy
\* is written or left out.
AuthProperties(mode, strategies, strategy) ==
  (IF mode = Absent THEN <<>>
   ELSE <<Property(Identifier("mode"), Literal(mode))>>)
  \o (IF ~strategies.given THEN <<>>
      ELSE <<Property(Identifier("strategies"),
                      ArrayExpression([i \in 1..Len(strategies.names) |->
                                         Literal(strategies.names[i])]))>>)
  \o (IF strategy = Absent THEN <<>>
      ELSE <<Property(Identifier("strategy"), Literal(strategy))>>)

AuthObjects ==
  {ObjectExpression(AuthProperties(mode, strategies, strategy)) :
     mode \in Modes \cup {Absent},
     strategies \in
       {[given |-> TRUE, names |-> names] :
          names \in SeqsUpTo(StrategyNames, MaxStrategies)}
       \cup {[given |-> FALSE, names |-> <<>>]},
     strategy \in {"sessionTokenA", "oauthToken", Absent}}

Validate == Property(Identifier("validate"), ObjectExpression(<<>>))

RouteConfigs ==
  {ObjectExpression(<<Validate, Property(Identifier("auth"), auth)>>) :
     auth \in AuthObjects}
  \cup {ObjectExpression(<<>>),
        ObjectExpression(<<Validate>>),
        \* auth: false
        ObjectExpression(<<Property(Identifier("auth"),
                                    BooleanLiteral(FALSE))>>),
        \* auth: strategy
        ObjectExpression(<<Property(Identifier("auth"),
                                    Identifier("strategy"))>>)}

InitAuth ==
  /\ pc = "findRouteAuthentication"
  /\ arg \in RouteConfigs
  /\ res = None
  /\ files = NoFiles
  /\ document = EmptyDocument
  /\ written = NotWritten

CallFindRouteAuthentication ==
  /\ pc = "findRouteAuthentication"
  /\ res' = findRouteAuthentication(arg, FILE_PATH)
  /\ pc' = "authenticated"
  /\ UNCHANGED <<arg, files, document, written>>

SpecAuth == InitAuth /\ [][CallFindRouteAuthentication]_vars

---------------------------------------------------------------------------
(* C7, C8: the authentication descriptor *)

\* The config's auth property is an object literal.
HasAuthObject(config) ==
  /\ Named(config, "auth") # {}
  /\ TypeIs(ValueOf(config, Min(Named(config, "auth"))), "ObjectExpression")

AuthOf(config) == ValueOf(config, Min(Named(config, "auth")))

Given(auth, name) == Named(auth, name) # {}

\* The literal an auth object gives for a name.
GivenValue(auth, name) ==
  Prop(ValueOf(auth, Min(Named(auth, name))), "value")

\* The strategy names of the strategies list, as written.
ListedNames(auth) ==
  LET elements == Elements(Prop(ValueOf(auth, Min(Named(auth, "strategies"))),
                                "elements"))
  IN [i \in 1..Len(elements) |-> Prop(elements[i], "value").v]

Canonical(name) ==
  IF StartsWith(name, "sessionToken") THEN "sessionToken"
  ELSE IF StartsWith(name, "keyFetchToken") THEN "keyFetchToken"
  ELSE name

\* The names at their first occurrence, in order.
RECURSIVE FirstOccurrences(_)
FirstOccurrences(names) ==
  IF names = <<>> THEN <<>>
  ELSE LET n == Len(names)
           earlier == FirstOccurrences(SubSeq(names, 1, n - 1))
       IN IF \E j \in 1..(n - 1) : names[j] = names[n] THEN earlier
          ELSE Append(earlier, names[n])

ExpectedType(auth) ==
  Join(FirstOccurrences([i \in 1..Len(ListedNames(auth)) |->
                           Canonical(ListedNames(auth)[i])]), ", ")

ExpectedOptional(auth) ==
  /\ Given(auth, "mode")
  /\ GivenValue(auth, "mode") \in {Str("try"), Str("optional")}

\* C7: for an auth object with a strategies list, the descriptor
\* findRouteAuthentication returns has type equal to the normalized strategy
\* names, deduplicated in first-occurrence order and joined with ', ', and
\* optional true exactly when mode is 'try' or 'optional'; it returns one
\* whenever that type is not empty.
C7_StrategiesNormalized ==
  (/\ pc = "authenticated"
   /\ HasAuthObject(arg)
   /\ Given(AuthOf(arg), "strategies")) =>
    /\ ExpectedType(AuthOf(arg)) # "" => res.ok
    /\ res.ok =>
         Same(res, Ok(Descriptor(ExpectedOptional(AuthOf(arg)),
                                 Str(ExpectedType(AuthOf(arg))))))

\* mode 'optional' with strategies ['sessionTokenA', 'sessionTokenB'] yields
\* {optional: true, type: 'sessionToken'}.
C7_Witness ==
  /\ pc = "authenticated"
  /\ HasAuthObject(arg)
  /\ Given(AuthOf(arg), "mode")
  /\ GivenValue(AuthOf(arg), "mode") = Str("optional")
  /\ Given(AuthOf(arg), "strategies")
  /\ ListedNames(AuthOf(arg)) = <<"sessionTokenA", "sessionTokenB">>
  /\ Same(res, Ok(Descriptor(TRUE, Str("sessionToken"))))

\* No strategy name is resolved from the auth object: neither strategy nor
\* strategies is given, or strategies is given and empty.
NoStrategyResolved(auth) ==
  IF Given(auth, "strategies") THEN ListedNames(auth) = <<>>
  ELSE ~Given(auth, "strategy")

\* C8: findRouteAuthentication never returns a descriptor without a strategy
\* name; with an auth object from which no strategy name is resolved it
\* fails with 'Missing authentication strategy'; it returns absent without
\* error only when the config has no auth property.
C8_StrategyRequired ==
  pc = "authenticated" =>
    /\ (res.ok /\ res.val.k = "d") =>
         (res.val.v.type.k = "s" /\ res.val.v.type.v # "")
    /\ (HasAuthObject(arg) /\ NoStrategyResolved(AuthOf(arg))) =>
         (~res.ok /\ EndsWith(res.err, "Missing authentication strategy"))
    /\ Same(res, Ok(Undefined)) => Named(arg, "auth") = {}

\* An auth object with an empty strategies list and a strategy: it fails.
C8_Witness ==
  /\ pc = "authenticated"
  /\ HasAuthObject(arg)
  /\ Given(AuthOf(arg), "strategies")
  /\ ListedNames(AuthOf(arg)) = <<>>
  /\ Given(AuthOf(arg), "strategy")
  /\ ~res.ok
  /\ EndsWith(res.err, "Missing authentication strategy")

---------------------------------------------------------------------------
(* The generation run: a routes directory of at most MaxFiles entries *)

MaxFiles == 2

IGNORE == {"defaults.js", "idp.js", "index.js", "validators.js"}

\* { method: 'GET', path: '/foo', config: { auth: ... }, handler: ... }
RouteWith(auth) ==
  ObjectExpression(<<
    Property(Identifier("method"), Literal("GET")),
    Property(Identifier("path"), Literal("/foo")),
    Property(Identifier("config"),
             ObjectExpression(<<Property(Identifier("auth"), auth), Validate>>)),
    Property(Identifier("handler"),
             FunctionExpression(<<ReturnStatement(Identifier("reply"))>>))>>)

SessionTokenAuth ==
  ObjectExpression(AuthProperties(Absent, [given |-> FALSE, names |-> <<>>],
                                  "sessionTokenA"))

NoStrategyAuth ==
  ObjectExpression(AuthProperties("try", [given |-> FALSE, names |-> <<>>],
                                  Absent))

\* module.exports = function () { return [ routes ] }
Exporting(routes) ==
  Program(<<Assign(ModuleExports,
                   FunctionExpression(<<ReturnStatement(
                                          ArrayExpression(routes))>>))>>)

Entry(name, isFile, parses, ast) ==
  [name |-> name, isFile |-> isFile, parses |-> parses, ast |-> ast]

DirectoryEntries ==
  {Entry("account.js", TRUE, TRUE, Exporting(<<RouteWith(SessionTokenAuth)>>)),
   \* module.exports = function () { var routes = [...]; return routes }
   Entry("session.js", TRUE, TRUE,
         Program(<<Assign(ModuleExports,
                          FunctionExpression(<<DeclareRoutes,
                             ReturnStatement(Identifier("routes"))>>))>>)),
   \* two export assignments
   Entry("password.js", TRUE, TRUE, Program(<<ExportFunction, ExportFunction>>)),
   \* module.exports = () => [ ... ]
   Entry("sign.js", TRUE, TRUE,
         Program(<<Assign(ModuleExports,
                          ArrowFunctionExpression(RouteArray))>>)),
   \* an auth object without a strategy
   Entry("util.js", TRUE, TRUE,
         Exporting(<<FooRoute, RouteWith(NoStrategyAuth)>>)),
   \* a route without a handler
   Entry("sms.js", TRUE, TRUE,
         Exporting(<<ObjectExpression(<<
           Property(Identifier("method"), Literal("GET")),
           Property(Identifier("path"), Literal("/foo"))>>)>>)),
   \* a file acorn cannot parse
   Entry("token.js", TRUE, FALSE, Undefined),
   \* ignored by name, not a script, not a file
   Entry("index.js", TRUE, TRUE, Program(<<>>)),
   Entry("README.md", TRUE, FALSE, Undefined),
   Entry("emails.js", FALSE, FALSE, Undefined)}

\* The filters of lines 78-80.
IsRouteFile(entry) ==
  /\ EndsWith(entry.name, ".js")
  /\ entry.name \notin IGNORE
  /\ entry.isFile

ROUTES_DIR == "lib/routes"

\* path.join(ROUTES_DIR, fileName)
PathOf(entry) == ROUTES_DIR \o "/" \o entry.name

RECURSIVE Filter(_)
Filter(entries) ==
  IF entries = <<>> THEN <<>>
  ELSE (IF IsRouteFile(Head(entries)) THEN <<Head(entries)>> ELSE <<>>)
       \o Filter(Tail(entries))

\* parseRoutes: the files of the routes directory, parsed; Promise.all
\* rejects when acorn.parse throws for one of them.
parseRoutes(entries) ==
  LET kept == Filter(entries) IN
  IF \E i \in 1..Len(kept) : ~kept[i].parses THEN Throw("SyntaxError")
  ELSE Ok([i \in 1..Len(kept) |->
             [path |-> PathOf(kept[i]), ast |-> kept[i].ast]])

Init ==
  /\ pc = "parseRoutes"
  /\ files \in SeqsUpTo(DirectoryEntries, MaxFiles)
  /\ arg = None
  /\ res = None
  /\ document = EmptyDocument
  /\ written = NotWritten

\* parseRoutes() settles (line 32).
ParseRoutes ==
  /\ pc = "parseRoutes"
  /\ LET routes == parseRoutes(files) IN
       IF routes.ok
       THEN /\ arg' = routes.val
            /\ pc' = "generateOutput"
            /\ res' = res
       ELSE /\ res' = routes
            /\ pc' = "rejected"
            /\ arg' = arg
  /\ UNCHANGED <<files, document, written>>

\* .then(routes => generateOutput(docs, routes)) (line 33).
GenerateOutput ==
  /\ pc = "generateOutput"
  /\ LET output == generateOutput(EmptyDocument, arg) IN
       IF output.ok
       THEN /\ document' = output.val
            /\ pc' = "writeOutput"
            /\ res' = res
       ELSE /\ res' = output
            /\ pc' = "rejected"
            /\ document' = document
  /\ UNCHANGED <<arg, files, written>>

\* .then(output => writeOutput(output, args.path)) (line 34).
WriteOutput ==
  /\ pc = "writeOutput"
  /\ written' = <<document.contents, document.body>>
  /\ pc' = "done"
  /\ UNCHANGED <<arg, res, files, document>>

Next == ParseRoutes \/ GenerateOutput \/ WriteOutput

Spec == Init /\ [][Next]_vars

---------------------------------------------------------------------------
(* C9: no partial output *)

\* The route files of the directory whose extraction fails.
Failing ==
  {i \in 1..Len(files) :
     /\ IsRouteFile(files[i])
     /\ \/ ~files[i].parses
        \/ ~processFile([path |-> PathOf(files[i]), ast |-> files[i].ast]).ok}

WellFormed ==
  {i \in 1..Len(files) : IsRouteFile(files[i]) /\ i \notin Failing}

\* C9: writeOutput is executed only after every route file has been
\* extracted without failure, and then writes every file's section; if the
\* extraction of any file fails, at any position, nothing is written.
C9_NoPartialOutput ==
  /\ written # NotWritten =>
       /\ Failing = {}
       /\ pc = "done"
       /\ \A i \in WellFormed :
            \E j \in 1..Len(written[1]) : written[1][j] = PathOf(files[i])
  /\ Failing # {} => (written = NotWritten /\ pc \notin {"writeOutput", "done"})

\* The run has aborted in generateOutput on a file that follows a
\* well-formed one, and nothing is written.
C9_Witness ==
  /\ pc = "rejected"
  /\ Len(files) = 2
  /\ 1 \in WellFormed
  /\ 2 \in Failing
  /\ files[2].parses
  /\ written = NotWritten

===========================================================================
